---------------------------- MODULE Spec2Model ----------------------------
(***************************************************************************)
(* State-machine model of the SearXNG scraper's search tool                *)
(* (src/src/index.ts, lines 103-401): endpoint selection, the Page Fetcher *)
(* fetchResults, the standard-mode controller fetchWithRetry, and the      *)
(* detailed-mode aggregation (fetchMultiplePages + the execute loop).      *)
(*                                                                         *)
(* Strings that the code inspects are sequences of characters or tokens;   *)
(* strings it only copies are TLA+ strings.  Every await is a control      *)
(* position (pc); every network request is issued by one step and settled  *)
(* by a later one.                                                         *)
(***************************************************************************)
EXTENDS Integers, Sequences, FiniteSets

\* ------------------------------------------------------------------ bounds
\* Largest number of configured endpoints in a standard-mode run.
MaxEndpointsStd == 7
\* Largest number of configured endpoints in a detailed-mode run.
MaxEndpointsDet == 4
\* Largest number of pages with a non-empty result set the servers serve
\* to one detailed call.
MaxResultPages == 3
\* Largest number of result sets fed to the merge law's accumulator.
MaxFeeds == 3
\* Largest number of configured endpoints in a run of either mode.
MaxEndpointsAll == 2
\* Largest number of result blocks in a document given to the extraction.
MaxBlocks == 3

\* ------------------------------------------------------- program constants
\* fetchWithRetry(..., 5, ...): the retry budget of a standard search.
maxRetries == 5
\* fetchMultiplePages(..., 3, ...): pages fetched per server.
maxPages == 3
\* "if (successfulServers >= 3) break": servers used by a detailed search.
maxServers == 3
\* "text?.length < 10" / "pageText.length > 10": serialized-length threshold.
minTextLength == 10

\* The calls the server can be executing.
Calls == {1, 2}

\* --------------------------------------------------------------- sequences
Last(s) == s[Len(s)]

Range(s) == {s[i] : i \in 1..Len(s)}

RemoveAt(s, i) == SubSeq(s, 1, i - 1) \o SubSeq(s, i + 1, Len(s))

\* Array.prototype.filter
Filter(s, Keep(_)) == SelectSeq(s, Keep)

\* ------------------------------------------------------------ configuration
\* process.env.SEARXNG_BASE_URL: unset, or a string (a sequence of characters).
EnvUnset == [set |-> FALSE, value |-> <<>>]

EnvString(v) == [set |-> TRUE, value |-> v]

\* String.prototype.split(";"): cut at every ";"; the result always has at
\* least one segment (the split of the empty string is [""]).
RECURSIVE SplitFrom(_, _, _)
SplitFrom(s, cur, acc) ==
    IF s = <<>> THEN Append(acc, cur)
    ELSE IF Head(s) = ";" THEN SplitFrom(Tail(s), <<>>, Append(acc, cur))
         ELSE SplitFrom(Tail(s), Append(cur, Head(s)), acc)

Split(s) == SplitFrom(s, <<>>, <<>>)

\* const baseUrl = process.env.SEARXNG_BASE_URL?.split(";")
BaseUrlOf(env) ==
    IF env.set THEN [defined |-> TRUE, list |-> Split(env.value)]
    ELSE [defined |-> FALSE, list |-> <<>>]

\* Boolean(url) for a string: the empty string is falsy.
Truthy(url) == url # <<>>

\* All orders of a sequence.
RECURSIVE Orders(_)
Orders(s) ==
    IF s = <<>> THEN {<<>>}
    ELSE UNION {{<<s[i]>> \o p : p \in Orders(RemoveAt(s, i))} : i \in 1..Len(s)}

\* shuffleAndFilterUrls without the filter.
shuffleUrlsOnly(urls) == Orders(urls)

\* shuffleAndFilterUrls: urls.filter(Boolean).sort(() => Math.random() - 0.5).
\* A sort under a random comparator can leave the entries in any order (and
\* leaves a list of one entry as it is); the result is one of these.
shuffleAndFilterUrls(urls) == Orders(Filter(urls, Truthy))

\* currentUrls[0]: undefined on an empty array; undefined and "" are both
\* falsy and both are written as the empty string.
First(urls) == IF urls = <<>> THEN <<>> ELSE urls[1]

\* ------------------------------------------------------ results and payload
\* A search result {url, summary}: url a string, summary a sequence of tokens.
Result(u, s) == [url |-> u, summary |-> s]

Urls(rs) == {rs[i].url : i \in 1..Len(rs)}

\* Markup tokens removed by summary.replace(/<[^>]*>/g, '').
Tags == {"<b>", "</b>"}

IsText(t) == t \notin Tags

StripTags(tokens) == Filter(tokens, IsText)

\* String.prototype.trim on a token sequence: whitespace tokens at both ends go.
RECURSIVE TrimLeft(_)
TrimLeft(s) == IF s # <<>> /\ Head(s) = " " THEN TrimLeft(Tail(s)) ELSE s

RECURSIVE TrimRight(_)
TrimRight(s) ==
    IF s # <<>> /\ Last(s) = " " THEN TrimRight(SubSeq(s, 1, Len(s) - 1)) ELSE s

Trim(s) == TrimRight(TrimLeft(s))

NoUrlFound == "No URL found"

NoSummaryFound == <<"No summary found">>

\* A result block of a page: href is the title link's href ("" when no link
\* with a non-empty href matches), snippet the content paragraph if any.
Block(h, present, tokens) == [href |-> h, present |-> present, tokens |-> tokens]

\* ExtractBlock pushing a result only when a summary was found as well.
ExtractBlockNeedsSummary(b) ==
    IF b.href # "" /\ b.href # NoUrlFound /\ b.present
    THEN <<Result(b.href, Trim(StripTags(b.tokens)))>> ELSE <<>>

\* One iteration of the extraction loop (lines 296-312).
ExtractBlock(b) ==
    LET url == IF b.href # "" THEN b.href ELSE NoUrlFound
        summary == IF b.present THEN Trim(StripTags(b.tokens)) ELSE NoSummaryFound
    IN  IF url # NoUrlFound THEN <<Result(url, summary)>> ELSE <<>>

\* The extraction loop over the result blocks of a document, in document order.
RECURSIVE Extract(_)
Extract(doc) ==
    IF doc = <<>> THEN <<>> ELSE ExtractBlock(Head(doc)) \o Extract(Tail(doc))

\* Length of a string of tokens.
RECURSIVE TextLen(_)
TextLen(s) == IF s = <<>> THEN 0 ELSE Len(Head(s)) + TextLen(Tail(s))

\* Length of JSON.stringify(resultsArray): "[]" for no result, otherwise
\* [{"url":"U","summary":"S"},...] with 23 characters of punctuation per
\* record and a comma between records (escapes only make it longer).
RECURSIVE RecordsLen(_)
RecordsLen(rs) ==
    IF rs = <<>> THEN 0
    ELSE 23 + Len(Head(rs).url) + TextLen(Head(rs).summary) + RecordsLen(Tail(rs))

JsonLen(rs) == IF rs = <<>> THEN 2 ELSE 2 + RecordsLen(rs) + (Len(rs) - 1)

\* JSON.stringify(resultsArray): the text and its length.
Stringify(rs) == [json |-> rs, length |-> JsonLen(rs)]

\* JSON.parse(pageText)
ParseJson(text) == text.json

NoText == [json |-> <<>>, length |-> 0]


\* ------------------------------------------------------------- environment
\* Result blocks the servers' pages are made of.
BlockA1 == Block("u1", TRUE, <<"hello", " ", "<b>", "world", "</b>">>)
BlockA2 == Block("u1", FALSE, <<>>)
BlockB1 == Block("u2", TRUE, <<" ", "x", " ">>)
BlockB2 == Block("u2", TRUE, <<>>)
BlockC == Block("u3", TRUE, <<"y">>)
BlockNoUrl == Block("", TRUE, <<"z">>)
\* A title link whose href is the text the code uses for "no link".
BlockPlaceholder == Block(NoUrlFound, TRUE, <<"z">>)

\* Documents a server can answer a search with.
DocEmpty == <<>>
DocNoUrl == <<BlockNoUrl>>
Doc1 == <<BlockA1, BlockB1, BlockA2>>
Doc2 == <<BlockB2, BlockNoUrl, BlockC>>

Pages == {DocEmpty, DocNoUrl, Doc1, Doc2}

\* An HTTP request of a Page Fetcher attempt.  pageno is the pageno parameter
\* of the search URL (line 220: present only when page > 1), 0 when absent;
\* language is its language parameter, "" when absent.
Req(kind, url, pageno, language) ==
    [kind |-> kind, url |-> url, pageno |-> pageno, language |-> language]

\* PageNo with the parameter written for every page.
PageNoAlways(pg) == pg

PageNo(pg) == IF pg > 1 THEN pg ELSE 0

\* The GET of the endpoint root (line 226) and of the stylesheet (line 248).
RootReq(url) == Req("root", url, 0, "")

CssReq(url) == Req("css", url, 0, "")

\* SearchReq with the language parameter left out of the URL.
SearchReqNoLanguage(url, language, pg) == Req("search", url, PageNo(pg), "")

\* The search GET of line 262, for the URL built at line 220: an undefined
\* or empty language adds no parameter (both are written "").
SearchReq(url, language, pg) == Req("search", url, PageNo(pg), language)

\* What the endpoint root can answer: a network error, or a response with
\* a status and a page that has no client stylesheet link ("plain"), has one
\* ("css"), has one whose href makes new URL(...) throw ("badcss"), or whose
\* body cannot be read ("unreadable").
RootOutcomes ==
    {[net |-> FALSE, ok |-> FALSE, page |-> "none"]}
    \cup {[net |-> TRUE, ok |-> o, page |-> p] :
            o \in BOOLEAN, p \in {"plain", "css", "badcss", "unreadable"}}

\* What an attempt remembers of its root GET: nothing before it settles,
\* then a network error (fetch rejects, line 226), a body that cannot be
\* read (response.text() rejects, line 236) or an answered request.
NoRoot == "pending"

RootSeen(o) ==
    IF ~o.net THEN "neterr"
    ELSE IF o.page = "unreadable" THEN "unreadable"
    ELSE "answered"

\* What a search GET can answer: a network error, or a response with a status
\* and a body that is unreadable, or readable with or without the landing
\* page marker and with the result blocks of a document.
SearchResponse(ok, readable, marker, doc) ==
    [net |-> TRUE, ok |-> ok, readable |-> readable, marker |-> marker, doc |-> doc]

SearchNetError ==
    [net |-> FALSE, ok |-> FALSE, readable |-> FALSE, marker |-> FALSE, doc |-> <<>>]

SearchOutcomes(docs) ==
    {SearchNetError}
    \cup {SearchResponse(o, FALSE, FALSE, <<>>) : o \in BOOLEAN}
    \cup {SearchResponse(o, TRUE, FALSE, d) : o \in BOOLEAN, d \in docs}
    \cup {SearchResponse(o, TRUE, TRUE, d) : o \in BOOLEAN, d \in docs \cap {Doc1}}

\* ------------------------------------------------------------------- state
VARIABLES
    baseUrl,            \* the module constant baseUrl (line 115)
    defaultLanguage,    \* a default language code in the configuration ("": none)
    serving,            \* how the servers behave while the calls run
    params,             \* per call: the tool parameters
    pc,                 \* per call: control position
    result,             \* per call: what the call gave its caller
    shuffledUrls,       \* per call: execute's shuffledUrls
    response,           \* per call: fetchWithRetry's response
    currentUrls,        \* per call: fetchWithRetry's currentUrls
    retries,            \* per call: fetchWithRetry's retries
    allResults,         \* per call: execute's allResults
    processedUrls,      \* per call: execute's processedUrls
    successfulServers,  \* per call: execute's successfulServers
    serverIdx,          \* per call: position of the for-of loop in serversToUse
    allPageResults,     \* per call: fetchMultiplePages' allPageResults
    pageProcessedUrls,  \* per call: fetchMultiplePages' processedUrls
    page,               \* per call: fetchMultiplePages' page
    frUrl,              \* per call: fetchResults' baseUrl argument
    frPage,             \* per call: fetchResults' page argument (0: none)
    doNotRetryAgain,    \* per call: fetchResults' doNotRetryAgain argument
    resp,               \* per call: fetchResults' local response
    frOut,              \* per call: how the Page Fetcher invocation ended
    caller,             \* per call: the call site awaiting fetchResults
    inflight,           \* per call: requests issued and not yet settled
    reqs,               \* history: requests of the current Page Fetcher invocation
    searchSeen,         \* history: search answers of the current invocation
    cssFailed,          \* history: the current invocation's stylesheet GET failed
    rootSeen,           \* history: what the root GET of the current attempt gave
    attempts,           \* history: Page Fetcher invocations of a standard call
    rotations,          \* history: times currentUrls was advanced
    backoffs,           \* history: completed backoff waits
    obtained,           \* history: page result sets obtained, concatenated
    resultPages,        \* history: pages obtained with a non-empty result set
    contacted,          \* history: positions (in shuffled order) requests went to
    pagesDone,          \* history: <<position, page>> whose fetch has completed
    countedAt,          \* history: positions counted as successful servers
    yieldedAt,          \* history: positions a page of which gave a result
    pageLog             \* history: <<position, page>> of the page fetches started

cfgVars == <<baseUrl, defaultLanguage, serving, params>>
fwrVars == <<response, currentUrls, retries>>
detVars == <<allResults, processedUrls, successfulServers, serverIdx>>
fmpVars == <<allPageResults, pageProcessedUrls, page>>
frArgs == <<frUrl, frPage, doNotRetryAgain>>
stdHist == <<attempts, rotations, backoffs>>
detGot == <<obtained, resultPages, pagesDone, countedAt, yieldedAt>>
detHist == <<obtained, resultPages, pagesDone, countedAt, yieldedAt, pageLog>>
frHist == <<searchSeen, cssFailed, rootSeen>>

vars == <<baseUrl, defaultLanguage, serving, params, pc, result, shuffledUrls, response, currentUrls, retries,
          allResults, processedUrls, successfulServers, serverIdx, allPageResults,
          pageProcessedUrls, page, frUrl, frPage, doNotRetryAgain, resp, frOut,
          caller, inflight, reqs, searchSeen, cssFailed, rootSeen, attempts, rotations,
          backoffs, obtained, resultPages, contacted, pagesDone, countedAt, yieldedAt,
          pageLog>>

\* Set writing one place that every call reads.
SetShared(f, c, v) == [d \in DOMAIN f |-> v]

Set(f, c, v) == [f EXCEPT ![c] = v]

\* The answers the servers give to the fetches of lines 226 and 262.  Servers
\* of kind "any" may answer anything; "steady" servers serve their root page
\* without a client stylesheet and answer a search with a result page or not
\* at all; "guarded" servers link a client stylesheet and answer every
\* search with the landing page that carries the redirect marker.
RootsServed ==
    IF serving = "steady" THEN {[net |-> TRUE, ok |-> TRUE, page |-> "plain"]}
    ELSE IF serving = "guarded" THEN {[net |-> TRUE, ok |-> TRUE, page |-> "css"]}
    ELSE RootOutcomes

SearchesServed(docs) ==
    IF serving = "steady"
    THEN {SearchNetError} \cup {SearchResponse(TRUE, TRUE, FALSE, d) : d \in docs \cap {Doc1}}
    ELSE IF serving = "guarded" THEN {SearchResponse(TRUE, TRUE, TRUE, Doc1)}
    ELSE SearchOutcomes(docs)

\* ------------------------------------------------------------ Page Fetcher
\* fetchResults' local "response": undefined, the root page's response (its
\* body consumed by the text() of line 236), or the search response.  The
\* variable resp holds it from the root GET to line 272, where it is used.
NoResponse ==
    [defined |-> FALSE, from |-> "none", ok |-> FALSE, used |-> FALSE,
     readable |-> FALSE, marker |-> FALSE, doc |-> <<>>]

\* RootResponse with a body that can be read again (an empty document).
RootResponseFresh(ok) ==
    [defined |-> TRUE, from |-> "root", ok |-> ok, used |-> FALSE,
     readable |-> TRUE, marker |-> FALSE, doc |-> <<>>]

RootResponse(ok) ==
    [defined |-> TRUE, from |-> "root", ok |-> ok, used |-> TRUE,
     readable |-> FALSE, marker |-> FALSE, doc |-> <<>>]

SearchResp(o) ==
    [defined |-> TRUE, from |-> "search", ok |-> o.ok, used |-> FALSE,
     readable |-> o.readable, marker |-> o.marker, doc |-> o.doc]

\* How a Page Fetcher invocation ends: it throws a UserError or returns a
\* ContentResult with one text; "retry" is the recursive call of line 283.
FrNone == [kind |-> "none", text |-> NoText]
FrThrow == [kind |-> "throw", text |-> NoText]
FrRetry == [kind |-> "retry", text |-> NoText]
FrReturn(text) == [kind |-> "return", text |-> text]

\* Lines 272-321, from the response left by the request sequence: a missing
\* or non-2xx response throws; response.text() throws on a consumed or
\* unreadable body; the landing-page marker throws when doNotRetryAgain is
\* set and asks for the second attempt otherwise; else the extracted results
\* are returned.  The outer catch rethrows every error as a UserError.
Classify(r, flag) ==
    IF ~r.defined \/ ~r.ok THEN FrThrow
    ELSE IF r.used \/ ~r.readable THEN FrThrow
    ELSE IF r.marker THEN (IF flag THEN FrThrow ELSE FrRetry)
    ELSE FrReturn(Stringify(Extract(r.doc)))

\* RetryFlag passing the caller's own flag on.
RetryFlagKept(flag) == flag

\* The doNotRetryAgain argument of the recursive call (line 283).
RetryFlag(flag) == TRUE

\* What the code observes of a search answer: a network error (line 272
\* then tests the ok of r, the response left by the root GET), a non-2xx
\* status (the body is then never read), an unreadable body, or the body
\* with its marker and result blocks.
Seen(o, r) ==
    IF ~o.net THEN [kind |-> "neterr", ok |-> r.ok, marker |-> FALSE, doc |-> <<>>]
    ELSE IF ~o.ok THEN [kind |-> "non2xx", ok |-> FALSE, marker |-> FALSE, doc |-> <<>>]
    ELSE IF ~o.readable
         THEN [kind |-> "unreadable", ok |-> TRUE, marker |-> FALSE, doc |-> <<>>]
    ELSE [kind |-> "body", ok |-> TRUE, marker |-> o.marker, doc |-> o.doc]

\* A request is in flight from the fetch(...) call to the end of its await.
Issue(flying, r) == flying \cup {r}

\* Settle for a fetch that is not awaited.
SettleNever(flying, r) == flying

Settle(flying, r) == flying \ {r}

\* Documents the servers may still serve to call c.
Offered(c) ==
    IF resultPages[c] < MaxResultPages THEN Pages
    ELSE {d \in Pages : Extract(d) = <<>>}

\* Position, in the call's shuffled order, of the endpoint being fetched.
CurPos(c) ==
    IF caller[c] = "page" THEN serverIdx[c]
    ELSE Len(shuffledUrls[c]) - Len(currentUrls[c]) + 1

\* fetchResults(log, query, url, time_range, language, pg, flag), up to its
\* first await: line 216 throws on a falsy base URL, otherwise the root GET
\* of line 226 is issued.  pos is the endpoint's position in shuffled order.
Invoke(c, url, pg, flag, pos) ==
    /\ frUrl' = Set(frUrl, c, url)
    /\ frPage' = Set(frPage, c, pg)
    /\ doNotRetryAgain' = Set(doNotRetryAgain, c, flag)
    /\ resp' = Set(resp, c, NoResponse)
    /\ cssFailed' = Set(cssFailed, c, FALSE)
    /\ rootSeen' = Set(rootSeen, c, NoRoot)
    /\ IF ~Truthy(url)
       THEN /\ pc' = Set(pc, c, "fr_done")
            /\ frOut' = Set(frOut, c, FrThrow)
            /\ UNCHANGED <<inflight, reqs, contacted>>
       ELSE /\ pc' = Set(pc, c, "fr_root")
            /\ inflight' = Set(inflight, c, Issue(inflight[c], RootReq(url)))
            /\ reqs' = Set(reqs, c, Append(reqs[c], RootReq(url)))
            /\ contacted' = Set(contacted, c, contacted[c] \cup {pos})
            /\ UNCHANGED frOut

\* The invocation's result has been taken by the awaiting call site: the
\* locals of fetchResults and the invocation's history are gone.
Taken(c) ==
    /\ frUrl' = Set(frUrl, c, <<>>)
    /\ frPage' = Set(frPage, c, 0)
    /\ doNotRetryAgain' = Set(doNotRetryAgain, c, FALSE)
    /\ resp' = Set(resp, c, NoResponse)
    /\ frOut' = Set(frOut, c, FrNone)
    /\ reqs' = Set(reqs, c, <<>>)
    /\ searchSeen' = Set(searchSeen, c, <<>>)
    /\ cssFailed' = Set(cssFailed, c, FALSE)
    /\ rootSeen' = Set(rootSeen, c, NoRoot)

\* The root GET settles (lines 226-259).  A network error, an unreadable
\* body or an href that new URL rejects lands in the catch of line 269 and
\* the attempt ends at line 272 or 276; a client stylesheet link issues the
\* stylesheet GET; otherwise the pacing delay starts.
RootDone(c) ==
    /\ pc[c] = "fr_root"
    /\ \E o \in RootsServed :
          LET r == IF o.net THEN RootResponse(o.ok) ELSE NoResponse
              landed == Settle(inflight[c], RootReq(frUrl[c]))
              css == CssReq(frUrl[c])
          IN  /\ rootSeen' = Set(rootSeen, c, RootSeen(o))
              /\ resp' = Set(resp, c, IF o.net /\ o.page \in {"plain", "css"}
                                          THEN r ELSE NoResponse)
              /\ IF o.net /\ o.page = "css"
                 THEN /\ inflight' = Set(inflight, c, Issue(landed, css))
                      /\ reqs' = Set(reqs, c, Append(reqs[c], css))
                      /\ pc' = Set(pc, c, "fr_css")
                      /\ UNCHANGED frOut
                 ELSE IF o.net /\ o.page = "plain"
                 THEN /\ inflight' = Set(inflight, c, landed)
                      /\ pc' = Set(pc, c, "fr_pace")
                      /\ UNCHANGED <<reqs, frOut>>
                 ELSE /\ inflight' = Set(inflight, c, landed)
                      /\ pc' = Set(pc, c, "fr_done")
                      /\ frOut' = Set(frOut, c, Classify(r, doNotRetryAgain[c]))
                      /\ UNCHANGED reqs
    /\ UNCHANGED <<cfgVars, result, shuffledUrls, fwrVars, detVars, fmpVars, frArgs,
                   caller, searchSeen, cssFailed, stdHist, detHist, contacted>>

\* CssCaught without the try/catch around the stylesheet fetch.
CssUncaught(failed) == ~failed

\* Lines 247-257: a failure of the stylesheet fetch is caught and logged,
\* so the request sequence goes on either way.
CssCaught(failed) == TRUE

\* The stylesheet GET settles (lines 247-257).  An error that escaped would
\* land in the catch of line 269 with the root page's response in "response".
CssDone(c) ==
    /\ pc[c] = "fr_css"
    /\ inflight' = Set(inflight, c, Settle(inflight[c], CssReq(frUrl[c])))
    /\ \E failed \in BOOLEAN :
          /\ cssFailed' = Set(cssFailed, c, failed)
          /\ IF CssCaught(failed)
             THEN pc' = Set(pc, c, "fr_pace") /\ UNCHANGED <<resp, frOut>>
             ELSE /\ pc' = Set(pc, c, "fr_done")
                  /\ frOut' = Set(frOut, c, Classify(resp[c], doNotRetryAgain[c]))
                  /\ resp' = Set(resp, c, NoResponse)
    /\ UNCHANGED <<cfgVars, result, shuffledUrls, fwrVars, detVars, fmpVars, frArgs,
                   caller, reqs, searchSeen, rootSeen, stdHist, detHist, contacted>>

\* The pacing delay of line 261 ends and the search GET of line 262 is issued.
PaceDone(c) ==
    /\ pc[c] = "fr_pace"
    /\ LET search == SearchReq(frUrl[c], params[c].language, frPage[c])
       IN  /\ inflight' = Set(inflight, c, Issue(inflight[c], search))
           /\ reqs' = Set(reqs, c, Append(reqs[c], search))
    /\ pc' = Set(pc, c, "fr_search")
    /\ UNCHANGED <<cfgVars, result, shuffledUrls, fwrVars, detVars, fmpVars, frArgs,
                   resp, frOut, caller, frHist, stdHist, detHist, contacted>>

\* The search GET settles (lines 262-318).  On a network error the catch of
\* line 269 leaves the root page's response in "response".
SearchDone(c) ==
    /\ pc[c] = "fr_search"
    /\ \E o \in SearchesServed(Offered(c)) :
          LET r == IF o.net THEN SearchResp(o) ELSE resp[c]
              end == Classify(r, doNotRetryAgain[c])
          IN  /\ resp' = Set(resp, c, NoResponse)
              /\ searchSeen' = Set(searchSeen, c, Append(searchSeen[c], Seen(o, resp[c])))
              /\ UNCHANGED <<cssFailed, rootSeen>>
              /\ IF end.kind = "retry"
                 THEN pc' = Set(pc, c, "fr_bot") /\ UNCHANGED frOut
                 ELSE pc' = Set(pc, c, "fr_done") /\ frOut' = Set(frOut, c, end)
    /\ inflight' = Set(inflight, c,
                       Settle(inflight[c], SearchReq(frUrl[c], params[c].language, frPage[c])))
    /\ UNCHANGED <<cfgVars, result, shuffledUrls, fwrVars, detVars, fmpVars, frArgs,
                   caller, reqs, stdHist, detHist, contacted>>

\* The 2 s delay of line 282 ends and fetchResults calls itself (line 283)
\* for the same endpoint and page.
BotWaitDone(c) ==
    /\ pc[c] = "fr_bot"
    /\ Invoke(c, frUrl[c], frPage[c], RetryFlag(doNotRetryAgain[c]), CurPos(c))
    /\ UNCHANGED <<cfgVars, result, shuffledUrls, fwrVars, detVars, fmpVars,
                   caller, searchSeen, stdHist, detHist>>

\* --------------------------------------------------- the search tool: entry
\* What the tool call gives its caller: nothing yet, a text payload, or a
\* UserError ("config": line 342, "noresponse": line 382).
Pending == [kind |-> "none", error |-> "", text |-> NoText]
Returned(text) == [kind |-> "return", error |-> "", text |-> text]
Failed(error) == [kind |-> "error", error |-> error, text |-> NoText]

\* IsDetailed testing the argument for truthiness ("absent": undefined).
IsDetailedTruthy(d) == d \notin {"absent", ""}

\* Line 346: detailed === 'true'.
IsDetailed(d) == d = "true"

\* Line 341: baseUrl === undefined || baseUrl.length === 0.
NotConfigured(b) == ~b.defined \/ Len(b.list) = 0

\* fetchWithRetry's "response": undefined or a ContentResult.
NoContent == [defined |-> FALSE, text |-> NoText]
Content(text) == [defined |-> TRUE, text |-> text]

\* Lines 341-343: the configuration check throws before anything else.
ExecuteConfigError(c) ==
    /\ pc[c] = "start"
    /\ NotConfigured(baseUrl)
    /\ result' = Set(result, c, Failed("config"))
    /\ pc' = Set(pc, c, "done")
    /\ UNCHANGED <<cfgVars, shuffledUrls, fwrVars, detVars, fmpVars, frArgs, resp,
                   frOut, caller, inflight, reqs, frHist, stdHist, detHist,
                   contacted>>

\* Lines 376-378 and 183-187: a standard search shuffles the endpoints and
\* fetchWithRetry starts its first fetch, of currentUrls[0].
ExecuteStandard(c) ==
    /\ pc[c] = "start"
    /\ ~NotConfigured(baseUrl)
    /\ ~IsDetailed(params[c].detailed)
    /\ \E s \in shuffleAndFilterUrls(baseUrl.list) :
          /\ shuffledUrls' = Set(shuffledUrls, c, s)
          /\ currentUrls' = Set(currentUrls, c, s)
          /\ Invoke(c, First(s), 0, FALSE, 1)
    /\ response' = Set(response, c, NoContent)
    /\ caller' = Set(caller, c, "first")
    /\ UNCHANGED <<cfgVars, result, retries, detVars, fmpVars, searchSeen, stdHist,
                   detHist>>

\* ---------------------------------------------------------- fetchWithRetry
\* StoreResponse with the catch clearing the response.
StoreResponseCleared(old, out) ==
    IF out.kind = "return" THEN Content(out.text) ELSE NoContent

\* The try/catch around each fetch (lines 186-190, 199-208): a returned
\* ContentResult is assigned to response, a thrown error leaves it as it was.
StoreResponse(old, out) == IF out.kind = "return" THEN Content(out.text) ELSE old

\* ShouldRetry accepting any response, whatever its text.
ShouldRetryAnyResponse(n, r) == n < maxRetries /\ ~r.defined

\* ShouldRetry with the budget test off by one.
ShouldRetryInclusive(n, r) ==
    n <= maxRetries /\ (~r.defined \/ r.text.length < minTextLength)

\* The loop condition of line 193.
ShouldRetry(n, r) ==
    n < maxRetries /\ (~r.defined \/ r.text.length < minTextLength)

\* Rotate moving the first base URL to the end of the list.
RotateCycle(urls) == IF Len(urls) > 1 THEN Tail(urls) \o <<Head(urls)>> ELSE urls

\* Rotate with the slice dropped.
RotateNever(urls) == urls

\* Lines 200-205: advance to the next base URL if there is one.
Rotate(urls) == IF Len(urls) > 1 THEN Tail(urls) ELSE urls

\* StandardResult with the throw of line 382 left out: nothing is given.
StandardResultSilent(r) == IF r.defined THEN Returned(r.text) ELSE Pending

\* Lines 379-383: the response if there is one, else a UserError.
StandardResult(r) == IF r.defined THEN Returned(r.text) ELSE Failed("noresponse")

Attempt(c) == [pos |-> CurPos(c), out |-> frOut[c]]

\* The first fetch has ended (lines 186-192).
AfterFirst(c) ==
    /\ pc[c] = "fr_done"
    /\ caller[c] = "first"
    /\ response' = Set(response, c, StoreResponse(response[c], frOut[c]))
    /\ retries' = Set(retries, c, 0)
    /\ attempts' = Set(attempts, c, Append(attempts[c], Attempt(c)))
    /\ Taken(c)
    /\ pc' = Set(pc, c, "fwr_loop")
    /\ UNCHANGED <<cfgVars, result, shuffledUrls, currentUrls, detVars, fmpVars,
                   caller, inflight, rotations, backoffs,
                   detHist, contacted>>

\* WaitsBeforeRetry with the wait under the test of line 194.
WaitsAfterFirstRetry(n) == n > 0

\* Line 197: every pass of the loop waits 1 s before it fetches (the test
\* of line 194 guards the log message only).
WaitsBeforeRetry(n) == TRUE

\* Lines 199-205: rotate, then fetch currentUrls[0].
Reattempt(c) ==
    /\ LET urls == Rotate(currentUrls[c])
       IN  /\ currentUrls' = Set(currentUrls, c, urls)
           /\ rotations' = Set(rotations, c,
                               IF Len(urls) < Len(currentUrls[c])
                               THEN rotations[c] + 1 ELSE rotations[c])
           /\ Invoke(c, First(urls), 0, FALSE, Len(shuffledUrls[c]) - Len(urls) + 1)
    /\ caller' = Set(caller, c, "retry")

\* Line 193 holds: the 1 s backoff of line 197 starts.
LoopRetry(c) ==
    /\ pc[c] = "fwr_loop"
    /\ ShouldRetry(retries[c], response[c])
    /\ IF WaitsBeforeRetry(retries[c])
       THEN /\ pc' = Set(pc, c, "fwr_backoff")
            /\ UNCHANGED <<currentUrls, frArgs, resp, frOut, caller, inflight, reqs,
                           cssFailed, rootSeen, rotations, contacted>>
       ELSE Reattempt(c)
    /\ UNCHANGED <<cfgVars, result, shuffledUrls, response, retries, detVars, fmpVars,
                   searchSeen, attempts, backoffs, detHist>>

\* Line 193 fails: fetchWithRetry returns and execute ends (lines 212, 379-383).
LoopExit(c) ==
    /\ pc[c] = "fwr_loop"
    /\ ~ShouldRetry(retries[c], response[c])
    /\ result' = Set(result, c, StandardResult(response[c]))
    /\ pc' = Set(pc, c, "done")
    /\ UNCHANGED <<cfgVars, shuffledUrls, fwrVars, detVars, fmpVars, frArgs, resp,
                   frOut, caller, inflight, reqs, frHist, stdHist, detHist,
                   contacted>>

\* The backoff ends (lines 197-205): rotate, then fetch currentUrls[0].
BackoffDone(c) ==
    /\ pc[c] = "fwr_backoff"
    /\ Reattempt(c)
    /\ backoffs' = Set(backoffs, c, backoffs[c] + 1)
    /\ UNCHANGED <<cfgVars, result, shuffledUrls, response, retries, detVars, fmpVars,
                   searchSeen, attempts, detHist>>

\* A re-attempt has ended (lines 199-209).
AfterRetry(c) ==
    /\ pc[c] = "fr_done"
    /\ caller[c] = "retry"
    /\ response' = Set(response, c, StoreResponse(response[c], frOut[c]))
    /\ retries' = Set(retries, c, retries[c] + 1)
    /\ attempts' = Set(attempts, c, Append(attempts[c], Attempt(c)))
    /\ Taken(c)
    /\ pc' = Set(pc, c, "fwr_loop")
    /\ UNCHANGED <<cfgVars, result, shuffledUrls, currentUrls, detVars, fmpVars,
                   caller, inflight, rotations, backoffs,
                   detHist, contacted>>

\* ------------------------------------------------------------ aggregation
\* addUniqueResults with processedUrls.add left out.
RECURSIVE addUniqueResultsNoAdd(_, _, _)
addUniqueResultsNoAdd(all, new, seen) ==
    IF new = <<>> THEN [results |-> all, urls |-> seen]
    ELSE IF Head(new).url \notin seen
         THEN addUniqueResultsNoAdd(Append(all, Head(new)), Tail(new), seen)
         ELSE addUniqueResultsNoAdd(all, Tail(new), seen)

\* addUniqueResults with unshift in place of push.
RECURSIVE addUniqueResultsUnshift(_, _, _)
addUniqueResultsUnshift(all, new, seen) ==
    IF new = <<>> THEN [results |-> all, urls |-> seen]
    ELSE IF Head(new).url \notin seen
         THEN addUniqueResultsUnshift(<<Head(new)>> \o all, Tail(new),
                                      seen \cup {Head(new).url})
         ELSE addUniqueResultsUnshift(all, Tail(new), seen)

\* addUniqueResults (lines 125-136): the loop over newResults, on the
\* accumulator allResults and the set processedUrls it updates in place.
RECURSIVE addUniqueResults(_, _, _)
addUniqueResults(all, new, seen) ==
    IF new = <<>> THEN [results |-> all, urls |-> seen]
    ELSE IF Head(new).url \notin seen
         THEN addUniqueResults(Append(all, Head(new)), Tail(new), seen \cup {Head(new).url})
         ELSE addUniqueResults(all, Tail(new), seen)

\* Lines 158-165 and the catch of 166: the results a page fetch contributes.
\* A thrown error, or a text of at most 10 characters, contributes nothing.
PageResults(out) ==
    IF out.kind = "return" /\ out.text.length > minTextLength
    THEN ParseJson(out.text) ELSE <<>>

\* LimitReached with > in place of >=.
LimitReachedLate(n) == n > maxServers

\* Line 357: enough servers have been used.
LimitReached(n) == n >= maxServers

\* DetailedResult treating an empty aggregate as the standard branch treats
\* a missing response.
DetailedResultStrict(all) ==
    IF all = <<>> THEN Failed("noresponse") ELSE Returned(Stringify(all))

\* Lines 372-374: the aggregate is returned, whatever it holds.
DetailedResult(all) == Returned(Stringify(all))

\* Lines 346-353: a detailed search shuffles the endpoints and starts with
\* an empty aggregate.
ExecuteDetailed(c) ==
    /\ pc[c] = "start"
    /\ ~NotConfigured(baseUrl)
    /\ IsDetailed(params[c].detailed)
    /\ \E s \in shuffleAndFilterUrls(baseUrl.list) :
          shuffledUrls' = Set(shuffledUrls, c, s)
    /\ allResults' = Set(allResults, c, <<>>)
    /\ processedUrls' = Set(processedUrls, c, {})
    /\ successfulServers' = Set(successfulServers, c, 0)
    /\ serverIdx' = Set(serverIdx, c, 1)
    /\ pc' = Set(pc, c, "det_loop")
    /\ UNCHANGED <<cfgVars, result, fwrVars, fmpVars, frArgs, resp, frOut, caller,
                   inflight, reqs, frHist, stdHist, detHist, contacted>>

\* Lines 356-362 and 152-157: the loop takes the next server and
\* fetchMultiplePages starts with the fetch of its page 1.
NextServer(c) ==
    /\ pc[c] = "det_loop"
    /\ serverIdx[c] <= Len(shuffledUrls[c])
    /\ ~LimitReached(successfulServers[c])
    /\ allPageResults' = Set(allPageResults, c, <<>>)
    /\ pageProcessedUrls' = Set(pageProcessedUrls, c, {})
    /\ page' = Set(page, c, 1)
    /\ caller' = Set(caller, c, "page")
    /\ Invoke(c, shuffledUrls[c][serverIdx[c]], 1, FALSE, serverIdx[c])
    /\ pageLog' = Set(pageLog, c, Append(pageLog[c], <<serverIdx[c], 1>>))
    /\ UNCHANGED <<cfgVars, result, shuffledUrls, fwrVars, detVars, searchSeen,
                   stdHist, detGot>>

\* Lines 356-358 and 372-374: the list is used up or the limit is reached.
DetailedReturn(c) ==
    /\ pc[c] = "det_loop"
    /\ serverIdx[c] > Len(shuffledUrls[c]) \/ LimitReached(successfulServers[c])
    /\ result' = Set(result, c, DetailedResult(allResults[c]))
    /\ pc' = Set(pc, c, "done")
    /\ UNCHANGED <<cfgVars, shuffledUrls, fwrVars, detVars, fmpVars, frArgs, resp,
                   frOut, caller, inflight, reqs, frHist, stdHist, detHist,
                   contacted>>

\* A page fetch has ended (lines 157-169): its results are merged into the
\* server's results and the loop moves to the next page.
AfterPage(c) ==
    /\ pc[c] = "fr_done"
    /\ caller[c] = "page"
    /\ LET merged == addUniqueResults(allPageResults[c], PageResults(frOut[c]),
                                      pageProcessedUrls[c])
           got == IF frOut[c].kind = "return" THEN frOut[c].text.json ELSE <<>>
       IN  /\ allPageResults' = Set(allPageResults, c, merged.results)
           /\ pageProcessedUrls' = Set(pageProcessedUrls, c, merged.urls)
           /\ obtained' = Set(obtained, c, obtained[c] \o got)
           /\ resultPages' = Set(resultPages, c,
                                 IF got # <<>> THEN resultPages[c] + 1 ELSE resultPages[c])
           /\ yieldedAt' = Set(yieldedAt, c,
                               IF got # <<>> THEN yieldedAt[c] \cup {serverIdx[c]}
                               ELSE yieldedAt[c])
    /\ pagesDone' = Set(pagesDone, c, pagesDone[c] \cup {<<serverIdx[c], page[c]>>})
    /\ page' = Set(page, c, page[c] + 1)
    /\ Taken(c)
    /\ pc' = Set(pc, c, "fmp_loop")
    /\ UNCHANGED <<cfgVars, result, shuffledUrls, fwrVars, detVars, caller, inflight,
                   stdHist, countedAt, pageLog, contacted>>

\* Line 155 holds: the next page of the same server is fetched.
NextPage(c) ==
    /\ pc[c] = "fmp_loop"
    /\ page[c] <= maxPages
    /\ Invoke(c, shuffledUrls[c][serverIdx[c]], page[c], FALSE, serverIdx[c])
    /\ pageLog' = Set(pageLog, c, Append(pageLog[c], <<serverIdx[c], page[c]>>))
    /\ UNCHANGED <<cfgVars, result, shuffledUrls, fwrVars, detVars, fmpVars, caller,
                   searchSeen, stdHist, detGot>>

\* Counted for a server that took part, whatever it gave.
CountedAlways(serverResults) == TRUE

\* Line 364: the server is counted when it gave at least one result.
Counted(serverResults) == Len(serverResults) > 0

\* Line 155 fails: fetchMultiplePages returns and lines 363-366 merge the
\* server's results into the aggregate and count the server.
ServerDone(c) ==
    /\ pc[c] = "fmp_loop"
    /\ page[c] > maxPages
    /\ LET merged == addUniqueResults(allResults[c], allPageResults[c], processedUrls[c])
           counted == Counted(allPageResults[c])
       IN  /\ allResults' = Set(allResults, c, merged.results)
           /\ processedUrls' = Set(processedUrls, c, merged.urls)
           /\ successfulServers' = Set(successfulServers, c,
                                       IF counted THEN successfulServers[c] + 1
                                       ELSE successfulServers[c])
           /\ countedAt' = Set(countedAt, c,
                               IF counted THEN Append(countedAt[c], serverIdx[c])
                               ELSE countedAt[c])
    /\ serverIdx' = Set(serverIdx, c, serverIdx[c] + 1)
    /\ pc' = Set(pc, c, "det_loop")
    /\ UNCHANGED <<cfgVars, result, shuffledUrls, fwrVars, fmpVars, frArgs, resp,
                   frOut, caller, inflight, reqs, frHist, stdHist, obtained,
                   resultPages, pagesDone, yieldedAt, pageLog, contacted>>

\* ---------------------------------------------------------- specifications
\* Endpoint i of a generated configuration.
EndpointName(i) == IF i = 1 THEN <<"a">> ELSE <<"b">>

\* The value "a;b;b;..." naming n endpoints.
RECURSIVE EnvOf(_)
EnvOf(n) == IF n = 1 THEN EndpointName(1) ELSE EnvOf(n - 1) \o <<";">> \o EndpointName(n)

\* Values with no non-empty entry, and values with empty entries among others.
EnvsOdd == {<<>>, <<";">>, <<";", "a">>, <<"a", ";", ";", "b">>}

\* The configuration and the parameters of the calls: languages are language
\* codes ("": the parameter is omitted), defaults default language codes.
InitConfig(envs, details, languages, defaults) ==
    /\ baseUrl \in {BaseUrlOf(e) : e \in envs}
    /\ defaultLanguage \in defaults
    /\ serving = "any"
    /\ params \in {[c \in Calls |-> [detailed |-> d, language |-> l]] :
                        d \in details, l \in languages}

\* The locals of the calls, with call c at control position at[c].
InitLocalsAt(at) ==
    /\ pc = at
    /\ result = [c \in Calls |-> Pending]
    /\ shuffledUrls = [c \in Calls |-> <<>>]
    /\ response = [c \in Calls |-> NoContent]
    /\ currentUrls = [c \in Calls |-> <<>>]
    /\ retries = [c \in Calls |-> 0]
    /\ allResults = [c \in Calls |-> <<>>]
    /\ processedUrls = [c \in Calls |-> {}]
    /\ successfulServers = [c \in Calls |-> 0]
    /\ serverIdx = [c \in Calls |-> 0]
    /\ allPageResults = [c \in Calls |-> <<>>]
    /\ pageProcessedUrls = [c \in Calls |-> {}]
    /\ page = [c \in Calls |-> 0]
    /\ frUrl = [c \in Calls |-> <<>>]
    /\ frPage = [c \in Calls |-> 0]
    /\ doNotRetryAgain = [c \in Calls |-> FALSE]
    /\ frOut = [c \in Calls |-> FrNone]
    /\ caller = [c \in Calls |-> "none"]
    /\ inflight = [c \in Calls |-> {}]
    /\ reqs = [c \in Calls |-> <<>>]
    /\ searchSeen = [c \in Calls |-> <<>>]
    /\ cssFailed = [c \in Calls |-> FALSE]
    /\ rootSeen = [c \in Calls |-> NoRoot]
    /\ attempts = [c \in Calls |-> <<>>]
    /\ rotations = [c \in Calls |-> 0]
    /\ backoffs = [c \in Calls |-> 0]
    /\ obtained = [c \in Calls |-> <<>>]
    /\ resultPages = [c \in Calls |-> 0]
    /\ contacted = [c \in Calls |-> {}]
    /\ pagesDone = [c \in Calls |-> {}]
    /\ countedAt = [c \in Calls |-> <<>>]
    /\ yieldedAt = [c \in Calls |-> {}]
    /\ pageLog = [c \in Calls |-> <<>>]

\* The locals of the calls, with call 1 at control position "at" ("start":
\* accepted and not yet started) and no other call.
InitLocals(at) == InitLocalsAt([c \in Calls |-> IF c = 1 THEN at ELSE "off"])

\* The state after module load, with call 1 at control position "at", no
\* language parameter and no default language.
InitWith(envs, details, at) ==
    /\ InitConfig(envs, details, {""}, {""})
    /\ InitLocals(at)
    /\ resp = [c \in Calls |-> NoResponse]

\* Steps of the Page Fetcher.
FetchStep(c) ==
    \/ RootDone(c)
    \/ CssDone(c)
    \/ PaceDone(c)
    \/ SearchDone(c)
    \/ BotWaitDone(c)

\* Standard searches: any configuration of up to MaxEndpointsStd endpoints.
EnvsStd ==
    {EnvUnset} \cup {EnvString(v) : v \in EnvsOdd \cup {EnvOf(n) : n \in 1..MaxEndpointsStd}}

InitStd == InitWith(EnvsStd, {"absent", "false"}, "start")

NextStd ==
    \E c \in Calls :
        \/ ExecuteConfigError(c)
        \/ ExecuteStandard(c)
        \/ FetchStep(c)
        \/ AfterFirst(c)
        \/ LoopRetry(c)
        \/ LoopExit(c)
        \/ BackoffDone(c)
        \/ AfterRetry(c)

SpecStd == InitStd /\ [][NextStd]_vars

\* Detailed searches: any configuration of up to MaxEndpointsDet endpoints.
EnvsDet ==
    {EnvUnset} \cup {EnvString(v) : v \in EnvsOdd \cup {EnvOf(n) : n \in 1..MaxEndpointsDet}}

InitDet == InitWith(EnvsDet, {"true"}, "start")

NextDet ==
    \E c \in Calls :
        \/ ExecuteConfigError(c)
        \/ ExecuteDetailed(c)
        \/ FetchStep(c)
        \/ NextServer(c)
        \/ DetailedReturn(c)
        \/ AfterPage(c)
        \/ NextPage(c)
        \/ ServerDone(c)

SpecDet == InitDet /\ [][NextDet]_vars

\* The merge law of addUniqueResults on its own: result sets of up to two
\* records are fed, one after the other, to one accumulator and URL set.
FeedResults ==
    {Result(u, t) : u \in {"u1", "u2"}, t \in {<<"x">>, NoSummaryFound}}

FeedSets ==
    {<<r>> : r \in FeedResults} \cup {<<r, q>> : r \in FeedResults, q \in FeedResults}

\* One call of addUniqueResults(allResults, rs, processedUrls).
Feed(c) ==
    /\ pc[c] = "merging"
    /\ resultPages[c] < MaxFeeds
    /\ \E rs \in FeedSets :
          LET merged == addUniqueResults(allResults[c], rs, processedUrls[c])
          IN  /\ allResults' = Set(allResults, c, merged.results)
              /\ processedUrls' = Set(processedUrls, c, merged.urls)
              /\ obtained' = Set(obtained, c, obtained[c] \o rs)
    /\ resultPages' = Set(resultPages, c, resultPages[c] + 1)
    /\ UNCHANGED <<cfgVars, pc, result, shuffledUrls, fwrVars, successfulServers,
                   serverIdx, fmpVars, frArgs, resp, frOut, caller, inflight, reqs,
                   frHist, stdHist, pagesDone, countedAt, yieldedAt, pageLog,
                   contacted>>

InitMerge == InitWith({EnvString(EnvOf(1))}, {"true"}, "merging")

NextMerge == \E c \in Calls : Feed(c)

SpecMerge == InitMerge /\ [][NextMerge]_vars

\* Standard searches with no configuration or four different servers.
EnvFour == <<"a", ";", "b", ";", "c", ";", "d">>

InitFour == InitWith({EnvUnset, EnvString(EnvFour)}, {"absent"}, "start")

SpecFour == InitFour /\ [][NextStd]_vars

\* The extraction on its own (lines 276-318): a readable 2xx search response
\* without the landing-page marker, holding a document of up to MaxBlocks
\* result blocks, is parsed.
Blocks == {BlockA1, BlockA2, BlockB1, BlockNoUrl, BlockPlaceholder}

RECURSIVE DocsOf(_)
DocsOf(n) ==
    IF n = 0 THEN {<<>>}
    ELSE DocsOf(n - 1) \cup {Append(d, b) : d \in {e \in DocsOf(n - 1) : Len(e) = n - 1},
                                            b \in Blocks}

Parse(c) ==
    /\ pc[c] = "extracting"
    /\ frOut' = Set(frOut, c, Classify(resp[c], doNotRetryAgain[c]))
    /\ pc' = Set(pc, c, "extracted")
    /\ UNCHANGED <<cfgVars, result, shuffledUrls, fwrVars, detVars, fmpVars, frArgs,
                   resp, caller, inflight, reqs, frHist, stdHist, detHist, contacted>>

InitExtract ==
    /\ InitConfig({EnvString(EnvOf(1))}, {"absent"}, {""}, {""})
    /\ InitLocals("extracting")
    /\ resp \in {[c \in Calls |-> IF c = 1
                                    THEN SearchResp(SearchResponse(TRUE, TRUE, FALSE, d))
                                    ELSE NoResponse] : d \in DocsOf(MaxBlocks)}

NextExtract == \E c \in Calls : Parse(c)

SpecExtract == InitExtract /\ [][NextExtract]_vars

\* Searches of either mode: any configuration of up to MaxEndpointsAll
\* endpoints.
EnvsAll ==
    {EnvUnset} \cup {EnvString(v) : v \in {<<>>} \cup {EnvOf(n) : n \in 1..MaxEndpointsAll}}

InitModes(languages, defaults) ==
    /\ InitConfig(EnvsAll, {"absent", "false", "true"}, languages, defaults)
    /\ InitLocals("start")
    /\ resp = [c \in Calls |-> NoResponse]

\* With and without a language parameter and a default language.
InitAll == InitModes({"", "en"}, {"", "fr"})

\* With neither.
InitPlain == InitModes({""}, {""})

NextAll ==
    \E c \in Calls :
        \/ ExecuteConfigError(c)
        \/ ExecuteStandard(c)
        \/ ExecuteDetailed(c)
        \/ FetchStep(c)
        \/ AfterFirst(c)
        \/ LoopRetry(c)
        \/ LoopExit(c)
        \/ BackoffDone(c)
        \/ AfterRetry(c)
        \/ NextServer(c)
        \/ DetailedReturn(c)
        \/ AfterPage(c)
        \/ NextPage(c)
        \/ ServerDone(c)

SpecAll == InitAll /\ [][NextAll]_vars

\* Values of the detailed argument ("absent": the argument is omitted).
DetailedValues == {"absent", "", "false", "true", "True", "1"}

InitDetailedValues ==
    /\ InitConfig(EnvsAll, DetailedValues, {""}, {""})
    /\ InitLocals("start")
    /\ resp = [c \in Calls |-> NoResponse]

SpecModes == InitDetailedValues /\ [][NextAll]_vars

\* Two concurrent calls, each standard or detailed, of a server that is not
\* configured, that has two steady endpoints or that has one guarded one.
WorldsTwo ==
    {<<EnvUnset, "steady">>,
     <<EnvString(<<"a", ";", "b">>), "steady">>,
     <<EnvString(<<"a">>), "guarded">>}

InitTwo ==
    /\ \E w \in WorldsTwo : baseUrl = BaseUrlOf(w[1]) /\ serving = w[2]
    /\ defaultLanguage = ""
    /\ params \in [Calls -> {[detailed |-> d, language |-> ""] : d \in {"absent", "true"}}]
    /\ InitLocalsAt([c \in Calls |-> "start"])
    /\ resp = [c \in Calls |-> NoResponse]

SpecTwo == InitTwo /\ [][NextAll]_vars

\* Every network request and every delay completes, and the event loop runs
\* whatever is ready: a step that can be taken is eventually taken.
FairAll == InitPlain /\ [][NextAll]_vars /\ WF_vars(NextAll)

\* ------------------------------------------------- standard-mode properties
\* An attempt's outcome satisfies the controller: a non-empty result set.
Satisfying(out) == out.kind = "return" /\ out.text.json # <<>>

FetchPcs == {"fr_root", "fr_css", "fr_pace", "fr_search", "fr_bot", "fr_done"}

\* Page Fetcher invocations the controller has started so far.
Started(c) == Len(attempts[c]) + (IF pc[c] \in FetchPcs THEN 1 ELSE 0)

\* C1: in a standard call, if the first k-1 attempts did not satisfy and the
\* k-th did, with k at most the number of endpoints and at most
\* maxRetries + 1, then attempt j went to the j-th endpoint of the shuffled
\* order for every j <= k, exactly k-1 rotations occurred, nothing is fetched
\* after the k-th attempt, and the call returns the k-th attempt's result set.
StandardFallback ==
    \A c \in Calls :
        \A k \in 1..Len(attempts[c]) :
            ( /\ k <= Len(shuffledUrls[c])
              /\ k <= maxRetries + 1
              /\ \A j \in 1..(k - 1) : ~Satisfying(attempts[c][j].out)
              /\ Satisfying(attempts[c][k].out) )
            => /\ Len(attempts[c]) = k
               /\ \A j \in 1..k : attempts[c][j].pos = j
               /\ rotations[c] = k - 1
               /\ pc[c] \in {"fwr_loop", "done"}
               /\ inflight[c] = {}
               /\ pc[c] = "done" => result[c] = Returned(attempts[c][k].out.text)

\* Two endpoints, the first fails, the second serves a result set: the call
\* has returned it after one rotation.
StandardFallbackWitness ==
    /\ pc[1] = "done"
    /\ Len(shuffledUrls[1]) = 2
    /\ Len(attempts[1]) = 2
    /\ attempts[1][1].out.kind = "throw"
    /\ Satisfying(attempts[1][2].out)
    /\ rotations[1] = 1
    /\ result[1].kind = "return"
    /\ Len(result[1].text.json) = 2

\* C2: in a standard call the retry counter never exceeds maxRetries, no
\* backoff or attempt starts once it has reached maxRetries, and at most
\* maxRetries + 1 Page Fetcher invocations are started.
RetryBudget ==
    \A c \in Calls :
        /\ retries[c] <= maxRetries
        /\ Started(c) <= maxRetries + 1
        /\ retries[c] = maxRetries => pc[c] \in {"fwr_loop", "done"}

\* The budget was used up: one first attempt and maxRetries re-attempts.
RetryBudgetWitness ==
    /\ pc[1] = "done"
    /\ retries[1] = maxRetries
    /\ Len(attempts[1]) = maxRetries + 1

\* Attempts of call c that returned a ContentResult.
ReturnedAttempts(c) == {j \in 1..Len(attempts[c]) : attempts[c][j].out.kind = "return"}

Max(S) == CHOOSE x \in S : \A y \in S : y <= x

\* C3: a standard call that made attempts and ends with no satisfying one
\* has used its whole budget; it fails (with the terminal error) exactly
\* when every attempt threw, and otherwise returns the text of the last
\* attempt that returned, whatever later attempts did.
ExhaustionOutcome ==
    \A c \in Calls :
        ( /\ pc[c] = "done"
          /\ attempts[c] # <<>>
          /\ \A j \in 1..Len(attempts[c]) : ~Satisfying(attempts[c][j].out) )
        => /\ retries[c] = maxRetries
           /\ result[c].kind = "error" <=> ReturnedAttempts(c) = {}
           /\ ReturnedAttempts(c) = {} => result[c] = Failed("noresponse")
           /\ ReturnedAttempts(c) # {} =>
                 result[c] = Returned(attempts[c][Max(ReturnedAttempts(c))].out.text)

\* An early attempt returned an empty result array, every later one threw,
\* and the call returned the empty array.
ExhaustionOutcomeWitness ==
    /\ pc[1] = "done"
    /\ retries[1] = maxRetries
    /\ attempts[1][1].out.kind = "return"
    /\ \A j \in 2..Len(attempts[1]) : attempts[1][j].out.kind = "throw"
    /\ result[1] = Returned(Stringify(<<>>))

\* --------------------------------------------------- Page Fetcher properties
\* Requests of the current invocation of call c of one kind.
Gets(c, kind) == Cardinality({i \in 1..Len(reqs[c]) : reqs[c][i].kind = kind})

\* A search answer in which the code found the landing-page marker.
IsRedirect(seen) == seen.kind = "body" /\ seen.marker

\* C5: a Page Fetcher invocation issues at most two search GETs, all its
\* requests go to one endpoint and its search GETs carry one page; a second
\* attempt is made (once, with recursion disabled) exactly when the first
\* search answer, a readable 2xx response, holds the landing-page marker;
\* if the second answer holds it too the invocation throws, and if the
\* second answer is a readable 2xx response without it the results
\* extracted from it are returned.
BotRedirectSingleRetry ==
    \A c \in Calls :
        /\ Gets(c, "search") <= 2
        /\ Gets(c, "root") <= 2
        /\ Len(searchSeen[c]) <= Gets(c, "search")
        /\ \A i, j \in 1..Len(reqs[c]) :
              /\ reqs[c][i].url = reqs[c][j].url
              /\ reqs[c][i].kind = "search" /\ reqs[c][j].kind = "search"
                    => reqs[c][i].pageno = reqs[c][j].pageno
        /\ Gets(c, "root") = 2 =>
              /\ doNotRetryAgain[c]
              /\ IsRedirect(searchSeen[c][1])
        /\ pc[c] = "fr_bot" =>
              /\ Gets(c, "root") = 1
              /\ Len(searchSeen[c]) = 1
              /\ IsRedirect(searchSeen[c][1])
        /\ pc[c] = "fr_done" =>
              /\ (searchSeen[c] # <<>> /\ IsRedirect(searchSeen[c][1]))
                    <=> Gets(c, "root") = 2
              /\ Len(searchSeen[c]) = 2 /\ IsRedirect(searchSeen[c][2])
                    => frOut[c] = FrThrow
              /\ Len(searchSeen[c]) = 2 /\ searchSeen[c][2].kind = "body"
                    /\ ~searchSeen[c][2].marker
                    => frOut[c] = FrReturn(Stringify(Extract(searchSeen[c][2].doc)))

\* Both search answers of an invocation, for page 2 of an endpoint, held
\* the marker, and the invocation threw.
BotRedirectSingleRetryWitness ==
    /\ pc[1] = "fr_done"
    /\ frPage[1] = 2
    /\ Len(searchSeen[1]) = 2
    /\ IsRedirect(searchSeen[1][1])
    /\ IsRedirect(searchSeen[1][2])
    /\ Gets(1, "search") = 2
    /\ frOut[1] = FrThrow

\* ------------------------------------------------- configuration properties
\* No endpoint is configured: the variable is unset or no entry is non-empty.
NoEndpoint(b) == ~b.defined \/ Filter(b.list, Truthy) = <<>>

\* C4: with no endpoint configured a call issues no request, waits for no
\* backoff, makes no retry, and ends with the configuration error.
ConfigurationErrorImmediate ==
    \A c \in Calls :
        NoEndpoint(baseUrl) =>
            /\ reqs[c] = <<>>
            /\ inflight[c] = {}
            /\ backoffs[c] = 0
            /\ retries[c] = 0
            /\ pc[c] = "done" => result[c] = Failed("config")

\* --------------------------------------------------- aggregation properties
\* The records of s whose URL occurs at no earlier position, in order.
RECURSIVE KeepFirst(_, _)
KeepFirst(s, i) ==
    IF i > Len(s) THEN <<>>
    ELSE IF \E j \in 1..(i - 1) : s[j].url = s[i].url THEN KeepFirst(s, i + 1)
         ELSE <<s[i]>> \o KeepFirst(s, i + 1)

FirstOccurrences(s) == KeepFirst(s, 1)

\* The first record of s with URL u.
FirstWith(s, u) == s[CHOOSE i \in 1..Len(s) : s[i].url = u /\ \A j \in 1..(i - 1) : s[j].url # u]

\* C6: after every merge into one accumulator and URL set, the accumulator
\* holds each URL at most once, and the record it holds for a URL is the
\* first record with that URL among the result sets fed so far.
MergeLaw ==
    \A c \in Calls :
        pc[c] = "merging" =>
            /\ \A i, j \in 1..Len(allResults[c]) :
                  allResults[c][i].url = allResults[c][j].url => i = j
            /\ \A i \in 1..Len(allResults[c]) :
                  /\ allResults[c][i].url \in Urls(obtained[c])
                  /\ allResults[c][i] = FirstWith(obtained[c], allResults[c][i].url)

\* A URL was fed with two different summaries in different merges, and the
\* accumulator holds it with the first.
MergeLawWitness ==
    /\ pc[1] = "merging"
    /\ resultPages[1] = MaxFeeds
    /\ Len(obtained[1]) >= 3
    /\ obtained[1][1].url = obtained[1][3].url
    /\ obtained[1][1].summary # obtained[1][3].summary
    /\ allResults[1][1] = obtained[1][1]
    /\ Len(allResults[1]) = 2

\* C7: a detailed call takes the endpoints in shuffled order, one position
\* after the other; it never counts more than maxServers servers, sends no
\* request to a position after that of the maxServers-th counted server, and
\* ends only when maxServers servers are counted or every endpoint was used.
DetailedStop ==
    \A c \in Calls :
        params[c].detailed = "true" =>
            /\ successfulServers[c] <= maxServers
            /\ successfulServers[c] = Len(countedAt[c])
            /\ \E k \in 0..Len(shuffledUrls[c]) : contacted[c] = 1..k
            /\ \A r \in inflight[c] : r.url = shuffledUrls[c][serverIdx[c]]
            /\ Len(countedAt[c]) >= maxServers =>
                  /\ contacted[c] = 1..countedAt[c][maxServers]
                  /\ pc[c] \in {"det_loop", "done"}
                  /\ inflight[c] = {}
            /\ pc[c] = "done" /\ result[c].kind = "return" =>
                  \/ successfulServers[c] = maxServers
                  \/ contacted[c] = 1..Len(shuffledUrls[c])

\* The first three of four endpoints were counted and the call has ended
\* without a request to the fourth.
DetailedStopWitness ==
    /\ pc[1] = "done"
    /\ Len(shuffledUrls[1]) = 4
    /\ countedAt[1] = <<1, 2, 3>>
    /\ contacted[1] = {1, 2, 3}

\* C8: the aggregate a detailed call returns is the page result sets it
\* obtained, concatenated in visit order, with every record dropped whose
\* URL occurs earlier; between servers the running aggregate is the same
\* function of the result sets obtained so far.
AggregateContent ==
    \A c \in Calls :
        params[c].detailed = "true" =>
            /\ pc[c] = "det_loop" => allResults[c] = FirstOccurrences(obtained[c])
            /\ pc[c] = "done" /\ result[c].kind = "return" =>
                  result[c].text = Stringify(FirstOccurrences(obtained[c]))

\* Pages of two servers gave records with repeated URLs, in both orders,
\* and the call returned the three distinct ones.
AggregateContentWitness ==
    /\ pc[1] = "done"
    /\ Len(countedAt[1]) >= 2
    /\ Len(obtained[1]) >= 8
    /\ obtained[1][1].url = "u2"
    /\ Len(result[1].text.json) = 3

\* C9: a detailed call with at least one endpoint configured never ends with
\* an error: whatever the page fetches did, it returns a payload.
DetailedNeverFails ==
    \A c \in Calls :
        params[c].detailed = "true" /\ ~NoEndpoint(baseUrl) =>
            /\ result[c].kind # "error"
            /\ pc[c] = "done" => result[c].kind = "return"

\* Every page of every one of three endpoints failed or was empty, and the
\* call returned the empty array.
DetailedNeverFailsWitness ==
    /\ pc[1] = "done"
    /\ Len(shuffledUrls[1]) = 3
    /\ Cardinality(pagesDone[1]) = 3 * maxPages
    /\ obtained[1] = <<>>
    /\ result[1] = Returned(Stringify(<<>>))

\* C10: a detailed call has at most one request in flight; while a request
\* is in flight it belongs to the current page of the current server, and
\* the page fetches completed so far are exactly those of all pages of the
\* earlier servers and of the earlier pages of the current server.
SequentialIssue ==
    \A c \in Calls :
        params[c].detailed = "true" =>
            /\ Cardinality(inflight[c]) <= 1
            /\ \A r \in inflight[c] :
                  /\ r.url = shuffledUrls[c][serverIdx[c]]
                  /\ r.kind = "search" => r.pageno = PageNo(page[c])
                  /\ pagesDone[c] =
                        {q \in (1..serverIdx[c]) \X (1..maxPages) :
                            q[1] < serverIdx[c] \/ q[2] < page[c]}

\* The search request for page 3 of the second server is in flight.
SequentialIssueWitness ==
    /\ serverIdx[1] = 2
    /\ page[1] = 3
    /\ inflight[1] = {SearchReq(shuffledUrls[1][2], params[1].language, 3)}

\* ------------------------------------------------------- outcome properties
\* A text that is the serialization of an array of {url, summary} records.
ValidPayload(text) ==
    /\ text.length = JsonLen(text.json)
    /\ \A i \in 1..Len(text.json) : DOMAIN text.json[i] = {"url", "summary"}

\* What a call has given its caller: nothing while it runs; once it has
\* ended, a valid payload or a terminal error, with nothing left in flight,
\* and in detailed mode the payload is the whole aggregate.
WellFormedOutcome(c) ==
    /\ pc[c] # "done" => result[c] = Pending
    /\ pc[c] = "done" =>
          /\ inflight[c] = {}
          /\ \/ result[c].kind = "return" /\ result[c].error = ""
                   /\ ValidPayload(result[c].text)
             \/ result[c] \in {Failed("config"), Failed("noresponse")}
          /\ result[c].kind = "return" /\ params[c].detailed = "true" =>
                result[c].text.json = allResults[c]

\* C11: provided every request and every delay completes, every call, of
\* either mode, ends; and a call gives its caller nothing before it ends and
\* then exactly one of a valid array payload and a terminal error.
TerminatesWellFormed ==
    /\ \A c \in Calls : (pc[c] = "start") ~> (pc[c] = "done")
    /\ [](\A c \in Calls : WellFormedOutcome(c))

\* A standard call used its whole budget, every attempt threw, and it ended
\* with the terminal error.
TerminatesWellFormedWitness ==
    /\ pc[1] = "done"
    /\ params[1].detailed # "true"
    /\ Len(attempts[1]) = maxRetries + 1
    /\ \A j \in 1..Len(attempts[1]) : attempts[1][j].out.kind = "throw"
    /\ result[1] = Failed("noresponse")

\* ---------------------------------------------------- extraction properties
\* The blocks of a document that satisfy Has, in document order.
BlocksWith(doc, Has(_)) == SelectSeq(doc, Has)

\* The block has a title link with a URL.
HasUrl(b) == b.href # ""

\* The block has a title link with a URL that is not the placeholder text.
HasProperUrl(b) == b.href # "" /\ b.href # NoUrlFound

\* The extraction of call c gave, in document order, one record per block
\* that satisfies Has and none for any other: each with the block's URL,
\* non-empty and not the placeholder, and with the placeholder summary when
\* the block has no snippet paragraph.
ExtractedPer(c, Has(_)) ==
    pc[c] = "extracted" =>
        /\ frOut[c].kind = "return"
        /\ LET out == frOut[c].text.json
               kept == BlocksWith(resp[c].doc, Has)
           IN  /\ Len(out) = Len(kept)
               /\ \A i \in 1..Len(out) :
                     /\ i <= Len(kept) => /\ out[i].url = kept[i].href
                                          /\ ~kept[i].present =>
                                                out[i].summary = NoSummaryFound
                     /\ out[i].url # ""
                     /\ out[i].url # NoUrlFound

\* C12 as stated: one record per block with a title-link URL, none for a
\* block without one, and no other drop condition.
ExtractionAsStated == \A c \in Calls : ExtractedPer(c, HasUrl)

\* C12: one record per block whose title-link URL is not the text
\* 'No URL found' and none for any other block; a block without a snippet
\* gets the placeholder summary; no emitted url is empty or the placeholder;
\* a document without such a block gives the empty sequence, not an error.
ExtractionResult == \A c \in Calls : ExtractedPer(c, HasProperUrl)

\* A block with a URL and no snippet, a block without a URL and a block
\* whose URL is the placeholder text: one record, with the placeholder summary.
ExtractionResultWitness ==
    /\ pc[1] = "extracted"
    /\ resp[1].doc = <<BlockA2, BlockNoUrl, BlockPlaceholder>>
    /\ frOut[1] = FrReturn(Stringify(<<Result("u1", NoSummaryFound)>>))

\* ----------------------------------------------- success in standard mode
\* The position the controller moves to after an attempt at position p.
NextPos(c, p) == IF p < Len(shuffledUrls[c]) THEN p + 1 ELSE p

\* C13: in a standard call only an attempt that gave a non-empty result set
\* ends the attempts while budget remains: no attempt follows a satisfying
\* one, a call that has ended had a satisfying last attempt or used its
\* whole budget, and an attempt that returned an empty result set is
\* followed, like one that threw, by a backoff and an attempt at the next
\* endpoint (the same one when none is left).
SuccessCriterion ==
    \A c \in Calls :
        params[c].detailed # "true" =>
            /\ \A j \in 1..(Len(attempts[c]) - 1) :
                  /\ ~Satisfying(attempts[c][j].out)
                  /\ attempts[c][j + 1].pos = NextPos(c, attempts[c][j].pos)
                  /\ backoffs[c] >= j
            /\ attempts[c] # <<>> /\ Satisfying(Last(attempts[c]).out) =>
                  pc[c] \in {"fwr_loop", "done"}
            /\ pc[c] = "done" /\ attempts[c] # <<>> =>
                  \/ Satisfying(Last(attempts[c]).out)
                  \/ Len(attempts[c]) = maxRetries + 1
            /\ pc[c] \in {"fwr_backoff"} \cup FetchPcs /\ attempts[c] # <<>> =>
                  ~Satisfying(Last(attempts[c]).out)

\* The first attempt returned an empty result array; after one backoff the
\* second endpoint gave results and the call returned them.
SuccessCriterionWitness ==
    /\ pc[1] = "done"
    /\ Len(attempts[1]) = 2
    /\ attempts[1][1] = [pos |-> 1, out |-> FrReturn(Stringify(<<>>))]
    /\ attempts[1][2].pos = 2
    /\ backoffs[1] = 1
    /\ result[1].kind = "return"
    /\ result[1].text.json # <<>>

\* ------------------------------------------------- request-sequence properties
\* C14: a Page Fetcher invocation whose search GET failed with a network
\* error or was answered with a non-2xx status ends there and throws; it
\* returns no result set, whatever the root page's response was.
TransportFailure ==
    \A c \in Calls :
        searchSeen[c] # <<>> /\ Last(searchSeen[c]).kind \in {"neterr", "non2xx"} =>
            /\ pc[c] = "fr_done"
            /\ frOut[c] = FrThrow

\* The root page was answered with a 2xx status, the search GET failed
\* with a network error, and the invocation threw.
TransportFailureWitness ==
    /\ pc[1] = "fr_done"
    /\ Len(searchSeen[1]) = 1
    /\ searchSeen[1][1].kind = "neterr"
    /\ searchSeen[1][1].ok
    /\ frOut[1] = FrThrow

\* The requests of the current invocation of call c, by kind.
Kinds(c) == [i \in 1..Len(reqs[c]) |-> reqs[c][i].kind]

\* How an invocation ends after the search answer seen: an error for a
\* failed, non-2xx or unreadable answer and for the marker (an invocation
\* ends on the marker only when it may not try again), the extracted
\* results otherwise.
EndFor(seen) ==
    IF seen.kind = "body" /\ ~seen.marker THEN FrReturn(Stringify(Extract(seen.doc)))
    ELSE FrThrow

\* The request sequence of an attempt, in every state.
WarmUpOrder(c) ==
    /\ Cardinality(inflight[c]) <= 1
    /\ \A i \in 1..Len(reqs[c]) :
          /\ reqs[c][i].kind = "search" =>
                /\ i >= 2
                /\ \/ Kinds(c)[i - 1] = "root"
                   \/ i >= 3 /\ Kinds(c)[i - 1] = "css" /\ Kinds(c)[i - 2] = "root"
                /\ reqs[c][i - 1].url = reqs[c][i].url
          /\ reqs[c][i].kind = "css" =>
                /\ i >= 2 /\ Kinds(c)[i - 1] = "root"
                /\ i < Len(reqs[c]) => Kinds(c)[i + 1] = "search"
                /\ i = Len(reqs[c]) => pc[c] \in {"fr_css", "fr_pace"}
    /\ cssFailed[c] =>
          /\ pc[c] \in {"fr_pace", "fr_search", "fr_bot", "fr_done"}
          /\ pc[c] # "fr_pace" => Last(reqs[c]).kind = "search"
    /\ pc[c] = "fr_done" /\ "css" \in Range(Kinds(c)) =>
          /\ searchSeen[c] # <<>>
          /\ frOut[c] = EndFor(Last(searchSeen[c]))

\* The steps of an attempt: the search GET is issued only by the end of
\* the pacing delay, and the delay starts only when the root GET, or the
\* stylesheet GET after it, has settled.
WarmUpStep(c) ==
    /\ pc'[c] = "fr_search" /\ pc[c] # "fr_search" =>
          /\ pc[c] = "fr_pace"
          /\ inflight[c] = {}
    /\ pc'[c] = "fr_pace" /\ pc[c] # "fr_pace" =>
          /\ pc[c] \in {"fr_root", "fr_css"}
          /\ inflight'[c] = {}

CountedPositions(c) == Range(countedAt[c])

\* C16 as stated, at the step that ends a server: the server is counted
\* exactly when the aggregate grew by at least one of its results.
CountedIffContributed ==
    [][\A c \in Calls :
          pc[c] = "fmp_loop" /\ pc'[c] = "det_loop" =>
              (successfulServers'[c] = successfulServers[c] + 1
                  <=> Len(allResults'[c]) > Len(allResults[c]))]_vars

\* C16: the servers a detailed call has counted are exactly the servers
\* done with of which some page gave a non-empty result set, whether or not
\* any of the results was new to the aggregate; a server whose pages all
\* failed or were empty is not counted; each is counted once and the
\* counter never exceeds maxServers.
CountedIffYielded ==
    \A c \in Calls :
        params[c].detailed = "true" =>
            /\ successfulServers[c] <= maxServers
            /\ successfulServers[c] = Cardinality(CountedPositions(c))
            /\ Len(countedAt[c]) = Cardinality(CountedPositions(c))
            /\ pc[c] \in {"det_loop", "done"} => CountedPositions(c) = yieldedAt[c]
            /\ pc[c] \notin {"det_loop", "done"} =>
                  CountedPositions(c) = yieldedAt[c] \ {serverIdx[c]}

\* The second server gave only results the first had given: the aggregate
\* did not grow and both servers are counted; a third gave nothing and is
\* not counted.
CountedIffYieldedWitness ==
    /\ pc[1] = "done"
    /\ Len(shuffledUrls[1]) = 3
    /\ countedAt[1] = <<1, 2>>
    /\ yieldedAt[1] = {1, 2}
    /\ Len(obtained[1]) = 6
    /\ Len(allResults[1]) = 2

\* ------------------------------------------------------ servers per call
\* The servers call c has sent a request to.
ServersContacted(c) == {shuffledUrls[c][p] : p \in contacted[c]}

\* C17: a call sends requests to at most three different servers.
AtMostThreeServers == \A c \in Calls : Cardinality(ServersContacted(c)) <= 3

\* ------------------------------------------------------ endpoint selection
\* Number of times x occurs in s.
Count(s, x) == Cardinality({i \in 1..Len(s) : s[i] = x})

\* C18: the order a call works with holds every non-empty entry of the
\* configured list as many times as the list does, no empty entry and
\* nothing else; a list of one non-empty entry is returned as it is.
SelectionIsPermutation ==
    \A c \in Calls :
        baseUrl.defined /\ pc[c] \notin {"start", "off"} =>
            /\ \A u \in Range(baseUrl.list) \cup Range(shuffledUrls[c]) :
                  Count(shuffledUrls[c], u) = IF u = <<>> THEN 0 ELSE Count(baseUrl.list, u)
            /\ Len(baseUrl.list) = 1 /\ baseUrl.list[1] # <<>> =>
                  shuffledUrls[c] = baseUrl.list

\* The configured list holds an empty entry between two endpoints; the call
\* works with the two endpoints, the last of the list first.
SelectionIsPermutationWitness ==
    /\ baseUrl.list = <<<<"a">>, <<>>, <<"b">>>>
    /\ shuffledUrls[1] = <<<<"b">>, <<"a">>>>

\* ------------------------------------------------------ language parameter
\* The search GETs call c has issued in its current invocation.
SearchGets(c) == {reqs[c][i] : i \in {j \in 1..Len(reqs[c]) : reqs[c][j].kind = "search"}}

\* C19 as stated: every search GET carries the caller's language, or the
\* configured default language when the caller gave none.
DefaultLanguageApplied ==
    \A c \in Calls :
        \A r \in SearchGets(c) \cup inflight[c] :
            r.kind = "search" =>
                r.language = IF params[c].language # "" THEN params[c].language
                             ELSE defaultLanguage

\* C19: every search GET carries the caller's language when the caller gave
\* one, and no language parameter when the caller gave none, whether or not
\* a default language is configured; the root and stylesheet GETs carry none.
LanguagePassedOn ==
    \A c \in Calls :
        \A r \in Range(reqs[c]) \cup inflight[c] :
            r.language = IF r.kind = "search" THEN params[c].language ELSE ""

\* A default language is configured, the caller gave none, and the search
\* GET for page 2 of a detailed call is in flight without a language.
LanguagePassedOnWitness ==
    /\ defaultLanguage = "fr"
    /\ params[1] = [detailed |-> "true", language |-> ""]
    /\ pc[1] = "fr_search"
    /\ inflight[1] = {Req("search", shuffledUrls[1][1], 2, "")}

\* --------------------------------------------------------------- backoff
\* C20: in a standard call a backoff starts only when the previous
\* invocation has ended and nothing is in flight; every invocation but the
\* first follows a completed backoff and the first follows none, so the
\* completed backoffs are one fewer than the invocations started, and a
\* call that has ended made as many backoff waits as re-attempts.
BackoffBeforeRetry ==
    \A c \in Calls :
        params[c].detailed # "true" =>
            /\ pc[c] = "fwr_backoff" =>
                  /\ inflight[c] = {}
                  /\ frOut[c] = FrNone
                  /\ backoffs[c] = Len(attempts[c]) - 1
            /\ pc[c] \in FetchPcs => backoffs[c] = Len(attempts[c])
            /\ pc[c] = "fwr_loop" => backoffs[c] = Len(attempts[c]) - 1
            /\ pc[c] \in {"fwr_loop", "done"} => backoffs[c] = retries[c]
            /\ pc[c] = "done" /\ attempts[c] # <<>> =>
                  backoffs[c] = Len(attempts[c]) - 1

\* A call on one endpoint ended after three re-attempts of it and three
\* backoff waits.
BackoffBeforeRetryWitness ==
    /\ pc[1] = "done"
    /\ Len(shuffledUrls[1]) = 1
    /\ Len(attempts[1]) = 4
    /\ retries[1] = 3
    /\ backoffs[1] = 3
    /\ rotations[1] = 0

\* --------------------------------------------------------------- rotation
\* The positions, in shuffled order, of the attempts call c has started.
Positions(c) ==
    [j \in 1..Len(attempts[c]) |-> attempts[c][j].pos]
        \o (IF pc[c] \in FetchPcs THEN <<CurPos(c)>> ELSE <<>>)

\* C21: in a standard call the positions attempted never go back: each
\* attempt is at the previous position or the next one, and at the previous
\* one only when that is the last of the shuffled list (after which every
\* attempt is at it); no position after maxRetries + 1 is attempted or
\* sent a request.
RotationMonotone ==
    \A c \in Calls :
        params[c].detailed # "true" =>
            LET P == Positions(c)
            IN  /\ \A j \in 1..(Len(P) - 1) :
                      /\ P[j + 1] \in {P[j], P[j] + 1}
                      /\ P[j + 1] = P[j] =>
                            /\ P[j] >= Len(shuffledUrls[c])
                            /\ \A m \in (j + 1)..Len(P) : P[m] = P[j]
                /\ \A j \in 1..Len(P) : P[j] <= maxRetries + 1
                /\ contacted[c] \subseteq 1..(maxRetries + 1)
                /\ contacted[c] \subseteq Range(P)

\* Seven endpoints are configured; the six attempts of the call went to
\* the first six in turn and the seventh was never contacted.
RotationMonotoneWitness ==
    /\ pc[1] = "done"
    /\ Len(shuffledUrls[1]) = maxRetries + 2
    /\ Positions(1) = <<1, 2, 3, 4, 5, 6>>
    /\ contacted[1] = 1..(maxRetries + 1)

\* ---------------------------------------------------------- page schedule
\* The i-th page fetch of a detailed call: the pages 1..maxPages of the
\* first endpoint, then those of the second, and so on.
Scheduled(i) == <<((i - 1) \div maxPages) + 1, ((i - 1) % maxPages) + 1>>

\* The page fetches of call c follow the schedule, and the search GETs of
\* the fetch in progress carry its page number, or none for page 1.
PageSchedule(c) ==
    /\ \A i \in 1..Len(pageLog[c]) : pageLog[c][i] = Scheduled(i)
    /\ pc[c] = "det_loop" => Len(pageLog[c]) = maxPages * (serverIdx[c] - 1)
    /\ pc[c] \in FetchPcs \cup {"fmp_loop"} =>
          /\ Len(pageLog[c]) = maxPages * (serverIdx[c] - 1)
                                  + (IF pc[c] = "fmp_loop" THEN page[c] - 1 ELSE page[c])
          /\ page[c] \in 1..(maxPages + 1)
    /\ pc[c] \in FetchPcs =>
          /\ Last(pageLog[c]) = <<serverIdx[c], page[c]>>
          /\ \A r \in Range(reqs[c]) :
                /\ r.url = shuffledUrls[c][serverIdx[c]]
                /\ r.kind = "search" =>
                      r.pageno = IF page[c] = 1 THEN 0 ELSE page[c]

\* A page fetch that threw or gave no result leaves the server's results as
\* they are and the loop goes on to the next page.
PageFailureStep(c) ==
    pc[c] = "fr_done" /\ pc'[c] # "fr_done" /\ ~Satisfying(frOut[c]) =>
        /\ allPageResults'[c] = allPageResults[c]
        /\ page'[c] = page[c] + 1
        /\ pc'[c] = "fmp_loop"
        /\ pageLog'[c] = pageLog[c]

\* C22: for every endpoint a detailed call visits, the Page Fetcher is
\* invoked once for each of the pages 1, 2, 3, in this order, whatever the
\* earlier pages gave; a page that failed or was empty adds nothing, is not
\* fetched again and is followed by the next page; the search GET of page 1
\* has no pageno and that of page p > 1 has pageno p.
DetailedPageSchedule ==
    /\ [](\A c \in Calls : params[c].detailed = "true" => PageSchedule(c))
    /\ [][\A c \in Calls : params[c].detailed = "true" => PageFailureStep(c)]_vars

\* Page 1 of the first endpoint gave nothing, page 2 was fetched with
\* pageno 2 and threw.
DetailedPageScheduleWitness ==
    /\ pc[1] = "fr_done"
    /\ frOut[1] = FrThrow
    /\ pageLog[1] = <<<<1, 1>>, <<1, 2>>>>
    /\ obtained[1] = <<>>
    /\ Last(reqs[1]) = Req("search", shuffledUrls[1][1], 2, "")

\* --------------------------------------------------------- mode selection
\* Call c has entered the detailed branch (lines 347-353).
RanDetailed(c) == serverIdx[c] >= 1

\* Call c has entered the standard branch (lines 377-378).
RanStandard(c) == caller[c] \in {"first", "retry"}

\* C23: a call that got past the configuration check runs the detailed
\* aggregation when its detailed argument is the string "true" and the
\* standard retry path for every other value or none, never both; on the
\* standard path no page fetch is started, every Page Fetcher invocation
\* is without a page and no search GET has a pageno.
ModeSelection ==
    \A c \in Calls :
        /\ RanDetailed(c) => params[c].detailed = "true"
        /\ RanStandard(c) => params[c].detailed # "true"
        /\ pc[c] \notin {"start", "off"} /\ result[c] # Failed("config") =>
              IF params[c].detailed = "true"
              THEN RanDetailed(c) /\ ~RanStandard(c) /\ attempts[c] = <<>>
              ELSE RanStandard(c) /\ ~RanDetailed(c)
        /\ params[c].detailed # "true" =>
              /\ pageLog[c] = <<>>
              /\ frPage[c] = 0
              /\ \A r \in Range(reqs[c]) \cup inflight[c] : r.pageno = 0

\* A call with detailed "True" is on the standard path, waiting for the
\* backoff before its second re-attempt.
ModeSelectionWitness ==
    /\ params[1].detailed = "True"
    /\ pc[1] = "fwr_backoff"
    /\ retries[1] = 1
    /\ Len(attempts[1]) = 2

\* ---------------------------------------------------------------------
\* Root-page failure (lines 223-274).

\* The attempt of call c has gone past its root GET towards the search
\* GET: it is at the stylesheet GET or the pacing delay, or its latest
\* request is the search GET.
TowardsSearch(c) ==
    \/ pc[c] \in {"fr_css", "fr_pace"}
    \/ reqs[c] # <<>> /\ Last(reqs[c]).kind = "search"

\* C24: in a Page Fetcher attempt whose root GET failed (the fetch or the
\* reading of its body was rejected) the root GET stays the attempt's last
\* request and the invocation throws; in an attempt whose root GET was
\* answered, with whatever status, the attempt goes on to the search GET.
RootFailureAborts ==
    \A c \in Calls :
        /\ rootSeen[c] \in {"neterr", "unreadable"} =>
              /\ pc[c] = "fr_done"
              /\ frOut[c] = FrThrow
              /\ Last(reqs[c]).kind = "root"
        /\ rootSeen[c] = "answered" => TowardsSearch(c)

\* ---------------------------------------------------------------------
\* Concurrent calls (lines 139-141, 183-202, 347-353).

\* Everything call c owns: parameters, locals, requests and history.
Local(c) ==
    <<params[c], pc[c], result[c], shuffledUrls[c], response[c], currentUrls[c],
      retries[c], allResults[c], processedUrls[c], successfulServers[c],
      serverIdx[c], allPageResults[c], pageProcessedUrls[c], page[c], frUrl[c],
      frPage[c], doNotRetryAgain[c], resp[c], frOut[c], caller[c], inflight[c],
      reqs[c], searchSeen[c], cssFailed[c], rootSeen[c], attempts[c],
      rotations[c], backoffs[c], obtained[c], resultPages[c], contacted[c],
      pagesDone[c], countedAt[c], yieldedAt[c], pageLog[c]>>

\* A step leaves the configured endpoint list alone, leaves a shuffled
\* list as its call made it, and touches what one call owns at most.
IsolatedStep ==
    /\ baseUrl' = baseUrl
    /\ \A c \in Calls : pc[c] # "start" => shuffledUrls'[c] = shuffledUrls[c]
    /\ \A c, d \in Calls : c # d /\ Local(c)' # Local(c) => Local(d)' = Local(d)

\* The position of the j-th attempt of a standard call over n endpoints.
AlonePos(n, j) == IF j < n THEN j ELSE IF n = 0 THEN 1 ELSE n

\* What a standard call gives after the attempts it made.
AlonePayload(c) ==
    LET R == ReturnedAttempts(c)
    IN  IF R = {} THEN Failed("noresponse")
        ELSE Returned(attempts[c][Max(R)].out.text)

\* Call c does what its shuffled list and the answers it got determine.
AsIfAlone(c) ==
    /\ NotConfigured(baseUrl) /\ pc[c] # "start" =>
          pc[c] = "done" /\ result[c] = Failed("config") /\ contacted[c] = {}
    /\ RanStandard(c) =>
          /\ \A j \in 1..Len(Positions(c)) :
                Positions(c)[j] = AlonePos(Len(shuffledUrls[c]), j)
          /\ \A j \in 1..(Len(attempts[c]) - 1) : ~Satisfying(attempts[c][j].out)
          /\ \A r \in Range(reqs[c]) : r.url = shuffledUrls[c][CurPos(c)]
          /\ pc[c] = "done" =>
                /\ Satisfying(Last(attempts[c]).out) \/ Len(attempts[c]) = maxRetries + 1
                /\ result[c] = AlonePayload(c)
    /\ RanDetailed(c) =>
          /\ \A i \in 1..Len(pageLog[c]) : pageLog[c][i] = Scheduled(i)
          /\ pc[c] \in FetchPcs =>
                \A r \in Range(reqs[c]) : r.url = shuffledUrls[c][serverIdx[c]]
          /\ pc[c] = "done" =>
                /\ \/ Len(countedAt[c]) = maxServers
                   \/ Len(pageLog[c]) = maxPages * Len(shuffledUrls[c])
                /\ result[c] = Returned(Stringify(FirstOccurrences(obtained[c])))

\* C25: no step changes the configured endpoint list, a shuffled list
\* after its call made it, or what two calls own; and under every
\* interleaving of two concurrent calls each call contacts the endpoints,
\* and gives the payload, that its own shuffled list and the answers to
\* its own requests determine.
NoSharedState ==
    /\ [](\A c \in Calls : AsIfAlone(c))
    /\ [][IsolatedStep]_vars

\* A standard call used up its budget on the order a, b and failed while a
\* detailed call, on the order b, a, got a result page from its first
\* endpoint and is fetching from its second.
NoSharedStateWitness ==
    /\ params[1].detailed = "absent" /\ params[2].detailed = "true"
    /\ shuffledUrls[1] = <<<<"a">>, <<"b">>>>
    /\ shuffledUrls[2] = <<<<"b">>, <<"a">>>>
    /\ pc[1] = "done"
    /\ result[1] = Failed("noresponse")
    /\ Positions(1) = <<1, 2, 2, 2, 2, 2>>
    /\ pc[2] = "fr_search"
    /\ serverIdx[2] = 2
    /\ allResults[2] # <<>>
    /\ processedUrls[2] # {}

=============================================================================
